---- MODULE Spec2Model ----
(***************************************************************************)
(* Model of the MSL target of spirv_cross (src/spirv_cross/src/msl.rs):    *)
(* the option translation (Version::as_raw, Format::as_raw,                *)
(* CompilerOptions::as_raw, Default), the translation of the two override  *)
(* tables into flat arrays, and the session operations parse,              *)
(* set_compiler_options, compile and is_rasterization_enabled.             *)
(*                                                                         *)
(* The native compiler behind the sc_internal_* entry points is the        *)
(* environment: every native call returns a result code chosen             *)
(* nondeterministically, and what the native layer remembers is modelled   *)
(* from the specification (section 6).                                     *)
(***************************************************************************)
EXTENDS Integers, Sequences, FiniteSets

VARIABLES ast, native, last, committed

vars == <<ast, native, last, committed>>

(***************************************************************************)
(* Bounds of the model.                                                    *)
(***************************************************************************)
\* vertex attribute locations are drawn from 0..MaxLocation
MaxLocation == 1
\* descriptor set and binding indices are drawn from 0..MaxIndex
MaxIndex == 1
\* an override table of the single-configure specification has at most
\* MaxEntries entries
MaxEntries == 2
\* a non-default buffer index is drawn from 0..MaxBufferIndex
MaxBufferIndex == 1

(***************************************************************************)
(* Option<T> and Result<T, E>.                                             *)
(***************************************************************************)
None == <<>>

Some(x) == <<x>>

Unwrap(o) == o[1]

Ok(v) == [ok |-> TRUE, val |-> v]

Err(e) == [ok |-> FALSE, err |-> e]

Unit == "()"

(***************************************************************************)
(* Enumerations.                                                           *)
(***************************************************************************)
Format == {"Other", "Uint8", "Uint16"}

Platform == {"iOS", "macOS"}

Version == {"V1_0", "V1_1", "V1_2", "V2_0", "V2_1"}

VertexAttributeStep == {"Vertex", "Instance"}

ExecutionModel ==
    {"Vertex", "TessellationControl", "TessellationEvaluation", "Geometry",
     "Fragment", "GlCompute", "Kernel"}

\* the result codes of the native entry points
ScInternalResult == {"Success", "Unhandled", "CompilationError"}

\* Format::as_raw
Format_as_raw(format) ==
    CASE format = "Other" -> "MSL_VERTEX_FORMAT_OTHER"
      [] format = "Uint8" -> "MSL_VERTEX_FORMAT_UINT8"
      [] format = "Uint16" -> "MSL_VERTEX_FORMAT_UINT16"

\* `self.platform as _`: the discriminant of the #[repr(u8)] enum
Platform_as_raw(platform) ==
    CASE platform = "iOS" -> 0
      [] platform = "macOS" -> 1

\* a copy-paste slip in the last arm of the match
Version_as_raw_Mutant(version) ==
    CASE version = "V1_0" -> 10000
      [] version = "V1_1" -> 10100
      [] version = "V1_2" -> 10200
      [] version = "V2_0" -> 20000
      [] version = "V2_1" -> 20000

\* Version::as_raw
Version_as_raw(version) ==
    CASE version = "V1_0" -> 10000
      [] version = "V1_1" -> 10100
      [] version = "V1_2" -> 10200
      [] version = "V2_0" -> 20000
      [] version = "V2_1" -> 20100

\* the version number each variant of Version names: V<major>_<minor>,
\* no variant has a patch level
Version_number(version) ==
    CASE version = "V1_0" -> [major |-> 1, minor |-> 0, patch |-> 0]
      [] version = "V1_1" -> [major |-> 1, minor |-> 1, patch |-> 0]
      [] version = "V1_2" -> [major |-> 1, minor |-> 2, patch |-> 0]
      [] version = "V2_0" -> [major |-> 2, minor |-> 0, patch |-> 0]
      [] version = "V2_1" -> [major |-> 2, minor |-> 1, patch |-> 0]

\* spirv::ExecutionModel::as_raw, the execution-stage translator
ExecutionModel_as_raw(stage) ==
    CASE stage = "Vertex" -> 0
      [] stage = "TessellationControl" -> 1
      [] stage = "TessellationEvaluation" -> 2
      [] stage = "Geometry" -> 3
      [] stage = "Fragment" -> 4
      [] stage = "GlCompute" -> 5
      [] stage = "Kernel" -> 6

\* the derived Ord of spirv::ExecutionModel: declaration order
ExecutionModel_lt(a, b) == ExecutionModel_as_raw(a) < ExecutionModel_as_raw(b)

\* spirv::built_in_as_raw on Option<spirv::BuiltIn>
built_in_as_raw(built_in) ==
    IF built_in = None THEN "BuiltInMax"
    ELSE CASE Unwrap(built_in) = "Position" -> "BuiltInPosition"
           [] Unwrap(built_in) = "PointSize" -> "BuiltInPointSize"

(***************************************************************************)
(* Key orders of the two override tables (derived Ord).                    *)
(***************************************************************************)
\* VertexAttributeLocation(pub u32): ordered by its number
VertexAttributeLocation_lt(a, b) == a < b

\* the fields compared in the wrong order: binding first
ResourceBindingLocation_lt_Mutant(a, b) ==
    \/ a.binding < b.binding
    \/ a.binding = b.binding /\ a.desc_set < b.desc_set
    \/ a.binding = b.binding /\ a.desc_set = b.desc_set
       /\ ExecutionModel_lt(a.stage, b.stage)

\* ResourceBindingLocation: derived Ord compares the fields in declaration
\* order: stage, then desc_set, then binding
ResourceBindingLocation_lt(a, b) ==
    \/ ExecutionModel_lt(a.stage, b.stage)
    \/ a.stage = b.stage /\ a.desc_set < b.desc_set
    \/ a.stage = b.stage /\ a.desc_set = b.desc_set /\ a.binding < b.binding

Restrict(map, keys) == [k \in keys |-> map[k]]

\* BTreeMap<VertexAttributeLocation, VertexAttribute>::iter(): the entries as
\* (key, value) pairs in ascending key order
RECURSIVE VertexAttributeOverrides_iter(_)
VertexAttributeOverrides_iter(map) ==
    IF DOMAIN map = {} THEN <<>>
    ELSE LET first == CHOOSE k \in DOMAIN map :
                        \A j \in DOMAIN map \ {k} : VertexAttributeLocation_lt(k, j)
         IN  <<[loc |-> first, vat |-> map[first]]>>
             \o VertexAttributeOverrides_iter(Restrict(map, DOMAIN map \ {first}))

\* BTreeMap<ResourceBindingLocation, ResourceBinding>::iter()
RECURSIVE ResourceBindingOverrides_iter(_)
ResourceBindingOverrides_iter(map) ==
    IF DOMAIN map = {} THEN <<>>
    ELSE LET first == CHOOSE k \in DOMAIN map :
                        \A j \in DOMAIN map \ {k} : ResourceBindingLocation_lt(k, j)
         IN  <<[loc |-> first, res |-> map[first]]>>
             \o ResourceBindingOverrides_iter(Restrict(map, DOMAIN map \ {first}))

(***************************************************************************)
(* The closures of set_compiler_options and the Vec operations around      *)
(* them.                                                                   *)
(***************************************************************************)
\* |(loc, res)| MSLResourceBinding { .. }
MSLResourceBinding(loc, res) ==
    [stage |-> ExecutionModel_as_raw(loc.stage),
     desc_set |-> loc.desc_set,
     binding |-> loc.binding,
     msl_buffer |-> res.buffer_id,
     msl_texture |-> res.texture_id,
     msl_sampler |-> res.sampler_id]

\* |(loc, vat)| MSLVertexAttr { .. }
MSLVertexAttr(loc, vat) ==
    [location |-> loc,
     msl_buffer |-> vat.buffer_id,
     msl_offset |-> vat.offset,
     msl_stride |-> vat.stride,
     per_instance |-> CASE vat.step = "Vertex" -> FALSE
                        [] vat.step = "Instance" -> TRUE,
     format |-> Format_as_raw(vat.format),
     builtin |-> built_in_as_raw(vat.built_in)]

\* the clear() forgotten
Vec_clear_Mutant(vec) == vec

\* Vec::clear
Vec_clear(vec) == <<>>

\* Vec::extend
Vec_extend(vec, items) == vec \o items

\* options.resource_binding_overrides.iter().map(..)
map_resource_binding_overrides(table) ==
    LET it == ResourceBindingOverrides_iter(table)
    IN  [i \in 1..Len(it) |-> MSLResourceBinding(it[i].loc, it[i].res)]

\* options.vertex_attribute_overrides.iter().map(..)
map_vertex_attribute_overrides(table) ==
    LET it == VertexAttributeOverrides_iter(table)
    IN  [i \in 1..Len(it) |-> MSLVertexAttr(it[i].loc, it[i].vat)]

(***************************************************************************)
(* CompilerOptions.                                                        *)
(***************************************************************************)
\* impl Default for CompilerVertexOptions
CompilerVertexOptions_default ==
    [invert_y |-> FALSE, transform_clip_space |-> FALSE]

\* the empty BTreeMap
BTreeMap_default == [k \in {} |-> k]

\* two buffer indices swapped
CompilerOptions_default_Mutant ==
    [platform |-> "macOS",
     version |-> "V1_2",
     vertex |-> CompilerVertexOptions_default,
     swizzle_buffer_index |-> 30,
     indirect_params_buffer_index |-> 29,
     output_buffer_index |-> 27,
     patch_output_buffer_index |-> 28,
     tessellation_factor_buffer_index |-> 26,
     buffer_size_buffer_index |-> 25,
     enable_point_size_builtin |-> TRUE,
     enable_rasterization |-> TRUE,
     capture_output_to_buffer |-> FALSE,
     swizzle_texture_samples |-> FALSE,
     tessellation_domain_origin_lower_left |-> FALSE,
     enable_argument_buffers |-> FALSE,
     pad_fragment_output_components |-> FALSE,
     resource_binding_overrides |-> BTreeMap_default,
     vertex_attribute_overrides |-> BTreeMap_default]

\* impl Default for CompilerOptions
CompilerOptions_default ==
    [platform |-> "macOS",
     version |-> "V1_2",
     vertex |-> CompilerVertexOptions_default,
     swizzle_buffer_index |-> 30,
     indirect_params_buffer_index |-> 29,
     output_buffer_index |-> 28,
     patch_output_buffer_index |-> 27,
     tessellation_factor_buffer_index |-> 26,
     buffer_size_buffer_index |-> 25,
     enable_point_size_builtin |-> TRUE,
     enable_rasterization |-> TRUE,
     capture_output_to_buffer |-> FALSE,
     swizzle_texture_samples |-> FALSE,
     tessellation_domain_origin_lower_left |-> FALSE,
     enable_argument_buffers |-> FALSE,
     pad_fragment_output_components |-> FALSE,
     resource_binding_overrides |-> BTreeMap_default,
     vertex_attribute_overrides |-> BTreeMap_default]

\* the inversion of the rasterization flag left out
CompilerOptions_as_raw_Mutant(options) ==
    [vertex_invert_y |-> options.vertex.invert_y,
     vertex_transform_clip_space |-> options.vertex.transform_clip_space,
     platform |-> Platform_as_raw(options.platform),
     version |-> Version_as_raw(options.version),
     enable_point_size_builtin |-> options.enable_point_size_builtin,
     disable_rasterization |-> options.enable_rasterization,
     swizzle_buffer_index |-> options.swizzle_buffer_index,
     indirect_params_buffer_index |-> options.indirect_params_buffer_index,
     shader_output_buffer_index |-> options.output_buffer_index,
     shader_patch_output_buffer_index |-> options.patch_output_buffer_index,
     shader_tess_factor_buffer_index |-> options.tessellation_factor_buffer_index,
     buffer_size_buffer_index |-> options.buffer_size_buffer_index,
     capture_output_to_buffer |-> options.capture_output_to_buffer,
     swizzle_texture_samples |-> options.swizzle_texture_samples,
     tess_domain_origin_lower_left |-> options.tessellation_domain_origin_lower_left,
     argument_buffers |-> options.enable_argument_buffers,
     pad_fragment_output_components |-> options.pad_fragment_output_components]

\* CompilerOptions::as_raw
CompilerOptions_as_raw(options) ==
    [vertex_invert_y |-> options.vertex.invert_y,
     vertex_transform_clip_space |-> options.vertex.transform_clip_space,
     platform |-> Platform_as_raw(options.platform),
     version |-> Version_as_raw(options.version),
     enable_point_size_builtin |-> options.enable_point_size_builtin,
     disable_rasterization |-> ~options.enable_rasterization,
     swizzle_buffer_index |-> options.swizzle_buffer_index,
     indirect_params_buffer_index |-> options.indirect_params_buffer_index,
     shader_output_buffer_index |-> options.output_buffer_index,
     shader_patch_output_buffer_index |-> options.patch_output_buffer_index,
     shader_tess_factor_buffer_index |-> options.tessellation_factor_buffer_index,
     buffer_size_buffer_index |-> options.buffer_size_buffer_index,
     capture_output_to_buffer |-> options.capture_output_to_buffer,
     swizzle_texture_samples |-> options.swizzle_texture_samples,
     tess_domain_origin_lower_left |-> options.tessellation_domain_origin_lower_left,
     argument_buffers |-> options.enable_argument_buffers,
     pad_fragment_output_components |-> options.pad_fragment_output_components]

(***************************************************************************)
(* The native boundary.  check! returns early from the calling function    *)
(* with the error of a native call that did not succeed.                   *)
(***************************************************************************)
\* check!: whether the macro returns early
check_failed(result) == result # "Success"

\* check!: the ErrorCode it returns for a native result code
check_error(result) == result

\* one native call as the session made it: entry point, arguments, result
\* code and what the native layer wrote through the out-pointer
NativeCall(fn, args, result, out) ==
    [fn |-> fn, args |-> args, result |-> result, out |-> out]

\* sc_internal_compiler_msl_set_options: an accepted flat record becomes the
\* native compiler's options and sets its effective rasterization flag
native_set_options(nat, raw_options, result) ==
    IF result = "Success"
    THEN [options |-> Some(raw_options),
          is_rasterization_disabled |-> raw_options.disable_rasterization]
    ELSE nat

\* sc_internal_compiler_msl_get_is_rasterization_disabled: the currently
\* effective flag
native_get_is_rasterization_disabled(nat) == nat.is_rasterization_disabled

\* CStr::to_str: whether the bytes are valid UTF-8, as core::str::from_utf8
\* decides it.  A character is one byte below 0x80, or a lead byte 0xC2-0xF4
\* followed by one to three continuation bytes 0x80-0xBF; the byte after the
\* lead is narrowed for 0xE0 (no overlong form), 0xED (no surrogate), 0xF0
\* (no overlong form) and 0xF4 (nothing above U+10FFFF).
RECURSIVE CStr_to_str_ok(_)
CStr_to_str_ok(bytes) ==
    IF bytes = <<>> THEN TRUE
    ELSE
      LET first == bytes[1]
          width == IF first < 128 THEN 1
                   ELSE IF first >= 194 /\ first <= 223 THEN 2
                   ELSE IF first >= 224 /\ first <= 239 THEN 3
                   ELSE IF first >= 240 /\ first <= 244 THEN 4
                   ELSE 0
          second_low == IF first = 224 THEN 160
                        ELSE IF first = 240 THEN 144
                        ELSE 128
          second_high == IF first = 237 THEN 159
                         ELSE IF first = 244 THEN 143
                         ELSE 191
      IN  /\ width >= 1
          /\ Len(bytes) >= width
          /\ width >= 2 => bytes[2] >= second_low /\ bytes[2] <= second_high
          /\ \A i \in 3..width : bytes[i] >= 128 /\ bytes[i] <= 191
          /\ CStr_to_str_ok(SubSeq(bytes, width + 1, Len(bytes)))

(***************************************************************************)
(* The session operations, each as a function of the session and of what   *)
(* the native layer answers.  Each yields the value returned to the        *)
(* caller (ret), the native calls made (calls) and, for the operations     *)
(* taking &mut self or building the session, the session afterwards.       *)
(***************************************************************************)
\* spirv::Parse<Target>::parse
parse(module, result, handle) ==
    LET call == NativeCall("sc_internal_compiler_msl_new",
                           [words |-> module, len |-> Len(module)],
                           result,
                           IF result = "Success" THEN handle ELSE 0)
    IN  IF check_failed(result)
        THEN [ret |-> Err(check_error(result)), calls |-> <<call>>, self |-> None]
        ELSE [ret |-> Ok(Unit),
              calls |-> <<call>>,
              self |-> Some([compiler |->
                               [sc_compiler |-> handle,
                                target_data |->
                                  [resource_binding_overrides |-> <<>>,
                                   vertex_attribute_overrides |-> <<>>],
                                has_been_compiled |-> FALSE]])]

\* the caches rewritten before the native result is checked
set_compiler_options_Mutant(self, options, result) ==
    LET raw_options == CompilerOptions_as_raw(options)
        call == NativeCall("sc_internal_compiler_msl_set_options",
                           [compiler |-> self.compiler.sc_compiler,
                            options |-> raw_options],
                           result, Unit)
        data == [resource_binding_overrides |->
                   map_resource_binding_overrides(options.resource_binding_overrides),
                 vertex_attribute_overrides |->
                   map_vertex_attribute_overrides(options.vertex_attribute_overrides)]
    IN  [ret |-> IF check_failed(result) THEN Err(check_error(result)) ELSE Ok(Unit),
         calls |-> <<call>>,
         self |-> [self EXCEPT !.compiler.target_data = data]]

\* spirv::Compile<Target>::set_compiler_options
set_compiler_options(self, options, result) ==
    LET raw_options == CompilerOptions_as_raw(options)
        call == NativeCall("sc_internal_compiler_msl_set_options",
                           [compiler |-> self.compiler.sc_compiler,
                            options |-> raw_options],
                           result, Unit)
        old == self.compiler.target_data
        data == [resource_binding_overrides |->
                   Vec_extend(Vec_clear(old.resource_binding_overrides),
                              map_resource_binding_overrides(
                                  options.resource_binding_overrides)),
                 vertex_attribute_overrides |->
                   Vec_extend(Vec_clear(old.vertex_attribute_overrides),
                              map_vertex_attribute_overrides(
                                  options.vertex_attribute_overrides))]
    IN  IF check_failed(result)
        THEN [ret |-> Err(check_error(result)), calls |-> <<call>>, self |-> self]
        ELSE [ret |-> Ok(Unit),
              calls |-> <<call>>,
              self |-> [self EXCEPT !.compiler.target_data = data]]

\* the length of the other array passed with each pointer
compile_internal_Mutant(self, result, shader, free_result) ==
    LET vat_overrides == self.compiler.target_data.vertex_attribute_overrides
        res_overrides == self.compiler.target_data.resource_binding_overrides
        call == NativeCall("sc_internal_compiler_msl_compile",
                           [compiler |-> self.compiler.sc_compiler,
                            vat_overrides |-> vat_overrides,
                            vat_len |-> Len(res_overrides),
                            res_overrides |-> res_overrides,
                            res_len |-> Len(vat_overrides)],
                           result,
                           IF result = "Success" THEN Some(shader) ELSE None)
        free == NativeCall("sc_internal_free_pointer",
                           [pointer |-> shader], free_result, Unit)
    IN  IF check_failed(result)
        THEN [ret |-> Err(check_error(result)), calls |-> <<call>>]
        ELSE IF ~CStr_to_str_ok(shader)
        THEN [ret |-> Err("Unhandled"), calls |-> <<call>>]
        ELSE IF check_failed(free_result)
        THEN [ret |-> Err(check_error(free_result)), calls |-> <<call, free>>]
        ELSE [ret |-> Ok(shader), calls |-> <<call, free>>]

\* spirv::Ast<Target>::compile_internal
compile_internal(self, result, shader, free_result) ==
    LET vat_overrides == self.compiler.target_data.vertex_attribute_overrides
        res_overrides == self.compiler.target_data.resource_binding_overrides
        call == NativeCall("sc_internal_compiler_msl_compile",
                           [compiler |-> self.compiler.sc_compiler,
                            vat_overrides |-> vat_overrides,
                            vat_len |-> Len(vat_overrides),
                            res_overrides |-> res_overrides,
                            res_len |-> Len(res_overrides)],
                           result,
                           IF result = "Success" THEN Some(shader) ELSE None)
        free == NativeCall("sc_internal_free_pointer",
                           [pointer |-> shader], free_result, Unit)
    IN  IF check_failed(result)
        THEN [ret |-> Err(check_error(result)), calls |-> <<call>>]
        ELSE IF ~CStr_to_str_ok(shader)
        THEN [ret |-> Err("Unhandled"), calls |-> <<call>>]
        ELSE IF check_failed(free_result)
        THEN [ret |-> Err(check_error(free_result)), calls |-> <<call, free>>]
        ELSE [ret |-> Ok(shader), calls |-> <<call, free>>]

\* spirv::Compile<Target>::compile
compile(self, result, shader, free_result) ==
    compile_internal(self, result, shader, free_result)

\* the native error dropped and the initial value of is_disabled used
is_rasterization_enabled_error_dropped(self, result, is_disabled) ==
    LET written == IF result = "Success" THEN is_disabled ELSE FALSE
        call == NativeCall("sc_internal_compiler_msl_get_is_rasterization_disabled",
                           [compiler |-> self.compiler.sc_compiler],
                           result, written)
    IN  [ret |-> Ok(~written), calls |-> <<call>>]

\* the negation left out
is_rasterization_enabled_not_negated(self, result, is_disabled) ==
    LET written == IF result = "Success" THEN is_disabled ELSE FALSE
        call == NativeCall("sc_internal_compiler_msl_get_is_rasterization_disabled",
                           [compiler |-> self.compiler.sc_compiler],
                           result, written)
    IN  IF check_failed(result)
        THEN [ret |-> Err(check_error(result)), calls |-> <<call>>]
        ELSE [ret |-> Ok(written), calls |-> <<call>>]

\* spirv::Ast<Target>::is_rasterization_enabled
is_rasterization_enabled(self, result, is_disabled) ==
    LET written == IF result = "Success" THEN is_disabled ELSE FALSE
        call == NativeCall("sc_internal_compiler_msl_get_is_rasterization_disabled",
                           [compiler |-> self.compiler.sc_compiler],
                           result, written)
    IN  IF check_failed(result)
        THEN [ret |-> Err(check_error(result)), calls |-> <<call>>]
        ELSE [ret |-> Ok(~written), calls |-> <<call>>]

(***************************************************************************)
(* Inputs.                                                                 *)
(***************************************************************************)
\* IR word streams handed to parse: an empty one and one holding the SPIR-V
\* magic number
Modules == {<<>>, <<119734787>>}

\* strings the native compile call returns.  Valid text: "msl", e-acute in
\* two bytes, the euro sign in three, U+1F600 in four.  Not UTF-8: a stray
\* 0xFF, a lead byte cut short, an overlong three-byte form and an encoded
\* surrogate.
NativeStrings ==
    {<<109, 115, 108>>, <<195, 169>>, <<226, 130, 172>>, <<240, 159, 152, 128>>,
     <<255>>, <<195>>, <<224, 128, 128>>, <<237, 160, 128>>}

VertexAttributes ==
    {[buffer_id |-> 0, offset |-> 0, stride |-> 16, step |-> "Vertex",
      format |-> "Other", built_in |-> None],
     [buffer_id |-> 1, offset |-> 4, stride |-> 8, step |-> "Instance",
      format |-> "Uint8", built_in |-> Some("Position")],
     [buffer_id |-> 2, offset |-> 6, stride |-> 2, step |-> "Instance",
      format |-> "Uint16", built_in |-> Some("PointSize")]}

ResourceBindings == {[buffer_id |-> 3, texture_id |-> 4, sampler_id |-> 5]}

Stages == {"Vertex", "Fragment"}

VertexAttributeLocations == 0..MaxLocation

ResourceBindingLocations ==
    [stage : Stages, desc_set : 0..MaxIndex, binding : 0..MaxIndex]

\* the maps from any at most n keys to values
Tables(keys, values, n) ==
    UNION {[ks -> values] : ks \in {x \in SUBSET keys : Cardinality(x) <= n}}

\* the six buffer indices: the defaults, or one of them set to a small index
BufferIndexChoices ==
    {CompilerOptions_default}
    \cup {[CompilerOptions_default EXCEPT !.swizzle_buffer_index = i]
            : i \in 0..MaxBufferIndex}
    \cup {[CompilerOptions_default EXCEPT !.indirect_params_buffer_index = i]
            : i \in 0..MaxBufferIndex}
    \cup {[CompilerOptions_default EXCEPT !.output_buffer_index = i]
            : i \in 0..MaxBufferIndex}
    \cup {[CompilerOptions_default EXCEPT !.patch_output_buffer_index = i]
            : i \in 0..MaxBufferIndex}
    \cup {[CompilerOptions_default EXCEPT !.tessellation_factor_buffer_index = i]
            : i \in 0..MaxBufferIndex}
    \cup {[CompilerOptions_default EXCEPT !.buffer_size_buffer_index = i]
            : i \in 0..MaxBufferIndex}

\* options with the scalars varied and both tables empty: every combination
\* of the nine flags with every choice of buffer indices, and every platform
\* with every version
ScalarOptions ==
    {[base EXCEPT
        !.vertex = [invert_y |-> flags[1], transform_clip_space |-> flags[2]],
        !.enable_point_size_builtin = flags[3],
        !.enable_rasterization = flags[4],
        !.capture_output_to_buffer = flags[5],
        !.swizzle_texture_samples = flags[6],
        !.tessellation_domain_origin_lower_left = flags[7],
        !.enable_argument_buffers = flags[8],
        !.pad_fragment_output_components = flags[9]]
       : base \in BufferIndexChoices, flags \in [1..9 -> BOOLEAN]}
    \cup {[CompilerOptions_default EXCEPT !.platform = platform, !.version = version]
            : platform \in Platform, version \in Version}

VertexAttributeTables(n) == Tables(VertexAttributeLocations, VertexAttributes, n)

ResourceBindingTables(n) == Tables(ResourceBindingLocations, ResourceBindings, n)

\* default scalars with the tables varied: one table of up to MaxEntries
\* entries next to the other of at most one
TableOptions ==
    {[CompilerOptions_default EXCEPT
        !.vertex_attribute_overrides = vat,
        !.resource_binding_overrides = res]
       : vat \in VertexAttributeTables(MaxEntries), res \in ResourceBindingTables(1)}
    \cup
    {[CompilerOptions_default EXCEPT
        !.vertex_attribute_overrides = vat,
        !.resource_binding_overrides = res]
       : vat \in VertexAttributeTables(1), res \in ResourceBindingTables(MaxEntries)}

\* the options of the single-configure specification
TranslateOptions == ScalarOptions \cup TableOptions

\* the options of the session specification: the defaults with the
\* rasterization flag varied, up to MaxEntries vertex attributes of one kind
\* and at most one fragment-stage resource binding of descriptor set 0
SessionOptions ==
    {[CompilerOptions_default EXCEPT
        !.enable_rasterization = raster,
        !.vertex_attribute_overrides = vat,
        !.resource_binding_overrides = res]
       : raster \in BOOLEAN,
         vat \in Tables(VertexAttributeLocations,
                        {v \in VertexAttributes : v.format = "Uint8"}, MaxEntries),
         res \in Tables({l \in ResourceBindingLocations :
                           l.stage = "Fragment" /\ l.desc_set = 0},
                        ResourceBindings, 1)}

(***************************************************************************)
(* The state: the session (None before a successful parse), what the       *)
(* native compiler remembers, the last call made on the session, and the   *)
(* options of the most recent successful set_compiler_options.             *)
(***************************************************************************)
\* sc_internal_compiler_msl_new: a fresh native compiler; its rasterization
\* flag before any options are set is the native library's choice
native_new(flag) == [options |-> None, is_rasterization_disabled |-> flag]

Call(op, r) == [op |-> op, ret |-> r.ret, calls |-> r.calls]

Init ==
    /\ ast = None
    /\ native = native_new(FALSE)
    /\ last = [op |-> "none", ret |-> Ok(Unit), calls |-> <<>>]
    /\ committed = None

Parse(module, result, flag) ==
    /\ ast = None
    /\ LET r == parse(module, result, 1)
       IN  /\ ast' = r.self
           /\ last' = Call("parse", r)
           /\ native' = IF result = "Success" THEN native_new(flag) ELSE native
    /\ committed' = None

SetCompilerOptions(options, result) ==
    /\ ast # None
    /\ LET r == set_compiler_options(Unwrap(ast), options, result)
       IN  /\ ast' = Some(r.self)
           /\ last' = Call("set_compiler_options", r)
           /\ native' = native_set_options(native, r.calls[1].args.options,
                                           r.calls[1].result)
           /\ committed' = IF r.ret.ok THEN Some(options) ELSE committed

Compile(result, shader, free_result) ==
    /\ ast # None
    /\ last' = Call("compile", compile(Unwrap(ast), result, shader, free_result))
    /\ UNCHANGED <<ast, native, committed>>

IsRasterizationEnabled(result) ==
    /\ ast # None
    /\ last' = Call("is_rasterization_enabled",
                    is_rasterization_enabled(
                        Unwrap(ast), result,
                        native_get_is_rasterization_disabled(native)))
    /\ UNCHANGED <<ast, native, committed>>

Next ==
    \/ \E module \in Modules, result \in ScInternalResult, flag \in BOOLEAN :
         Parse(module, result, flag)
    \/ \E options \in SessionOptions, result \in ScInternalResult :
         SetCompilerOptions(options, result)
    \/ \E result \in ScInternalResult, shader \in NativeStrings,
          free_result \in ScInternalResult :
         Compile(result, shader, free_result)
    \/ \E result \in ScInternalResult : IsRasterizationEnabled(result)

Spec == Init /\ [][Next]_vars

(***************************************************************************)
(* The single-configure specification: set_compiler_options is called     *)
(* once on a freshly parsed session, with options drawn from               *)
(* TranslateOptions.                                                       *)
(***************************************************************************)
InitTranslate ==
    \E flag \in BOOLEAN :
      LET r == parse(<<119734787>>, "Success", 1)
      IN  /\ ast = r.self
          /\ native = native_new(flag)
          /\ last = Call("parse", r)
          /\ committed = None

ConfigureOnce ==
    /\ last.op = "parse"
    /\ \E options \in TranslateOptions, result \in ScInternalResult :
         SetCompilerOptions(options, result)

NextTranslate == ConfigureOnce

SpecTranslate == InitTranslate /\ [][NextTranslate]_vars

(***************************************************************************)
(* Properties.                                                             *)
(***************************************************************************)
\* the session's two cached override arrays
vat_cache == Unwrap(ast).compiler.target_data.vertex_attribute_overrides

res_cache == Unwrap(ast).compiler.target_data.resource_binding_overrides

\* the native calls of the last operation that went to entry point fn
CallsTo(fn) == {i \in 1..Len(last.calls) : last.calls[i].fn = fn}

NativeEntryPoints == {last.calls[i].fn : i \in 1..Len(last.calls)}

AllSucceeded == \A i \in 1..Len(last.calls) : last.calls[i].result = "Success"

\* C1: the cached override arrays are exactly the translation of the two
\* tables of the options of the most recent successful set_compiler_options
\* (nothing of earlier calls left in them), and both are empty while no
\* set_compiler_options has succeeded since parse.
C1_CachesAreLastSuccessfulConfigure ==
    /\ ast = None => committed = None
    /\ ast # None =>
         IF committed = None
         THEN vat_cache = <<>> /\ res_cache = <<>>
         ELSE /\ vat_cache = map_vertex_attribute_overrides(
                                 Unwrap(committed).vertex_attribute_overrides)
              /\ res_cache = map_resource_binding_overrides(
                                 Unwrap(committed).resource_binding_overrides)

\* C1 witness: a compile after a successful set_compiler_options whose tables
\* hold one vertex attribute and one resource binding
C1_Witness ==
    /\ last.op = "compile"
    /\ committed # None
    /\ Len(vat_cache) = 1
    /\ Len(res_cache) = 1
    /\ vat_cache[1].location = 1
    /\ res_cache[1].binding = 1

\* C2: compile releases the string the native compile call returned exactly
\* once on every path: whenever that call succeeded, the operation made
\* exactly one sc_internal_free_pointer call.
C2_StringReleasedExactlyOnce ==
    (/\ last.op = "compile"
     /\ last.calls[1].result = "Success")
    => Cardinality(CallsTo("sc_internal_free_pointer")) = 1

\* C3: a set_compiler_options that the native layer rejects returns the
\* native error and leaves the session, with both cached override arrays, as
\* it was before the call.
C3_FailedConfigureKeepsCaches ==
    [][(last'.op = "set_compiler_options" /\ last'.calls[1].result # "Success")
       => /\ last'.ret = Err(last'.calls[1].result)
          /\ ast' = ast
          /\ committed' = committed]_vars

\* C3 witness: a rejected set_compiler_options on a session whose caches
\* hold the arrays of an earlier successful one
C3_Witness ==
    /\ last.op = "set_compiler_options"
    /\ ~last.ret.ok
    /\ committed # None
    /\ Len(vat_cache) = 2
    /\ Len(res_cache) = 1

\* C4: compile, succeeding or failing, leaves the session unchanged and
\* passes to the native compile entry point exactly the cached
\* vertex-attribute and resource-binding arrays with their lengths; before
\* any successful set_compiler_options these are two empty arrays.
C4_CompileSubmitsCaches ==
    [][last'.op = "compile"
       => /\ ast' = ast
          /\ Len(last'.calls) >= 1
          /\ last'.calls[1].fn = "sc_internal_compiler_msl_compile"
          /\ LET args == last'.calls[1].args
                 data == Unwrap(ast).compiler.target_data
             IN  /\ args.compiler = Unwrap(ast).compiler.sc_compiler
                 /\ args.vat_overrides = data.vertex_attribute_overrides
                 /\ args.vat_len = Len(data.vertex_attribute_overrides)
                 /\ args.res_overrides = data.resource_binding_overrides
                 /\ args.res_len = Len(data.resource_binding_overrides)
                 /\ committed = None =>
                      /\ args.vat_overrides = <<>> /\ args.vat_len = 0
                      /\ args.res_overrides = <<>> /\ args.res_len = 0]_vars

\* C4 witness: a failed compile on a session caching two vertex attributes
\* and one resource binding
C4_Witness ==
    /\ last.op = "compile"
    /\ ~last.ret.ok
    /\ last.calls[1].args.vat_len = 2
    /\ last.calls[1].args.res_len = 1

\* C5: every operation calls each native entry point at most once and
\* returns the error of a native call that failed; a failed parse yields no
\* session; compile returns Unhandled when the native string is not valid
\* text, and returns the text only when every native call in it succeeded.
C5_NativeErrorsSurfaced ==
    /\ \A fn \in NativeEntryPoints : Cardinality(CallsTo(fn)) = 1
    /\ \A i \in 1..Len(last.calls) :
         last.calls[i].result # "Success"
         => ~last.ret.ok /\ last.ret.err = last.calls[i].result
    /\ last.op = "parse" =>
         /\ NativeEntryPoints = {"sc_internal_compiler_msl_new"}
         /\ ~last.ret.ok => ast = None
    /\ last.op = "set_compiler_options" =>
         NativeEntryPoints = {"sc_internal_compiler_msl_set_options"}
    /\ last.op = "is_rasterization_enabled" =>
         NativeEntryPoints = {"sc_internal_compiler_msl_get_is_rasterization_disabled"}
    /\ last.op = "compile" =>
         /\ "sc_internal_compiler_msl_compile" \in NativeEntryPoints
         /\ (last.calls[1].result = "Success"
             /\ ~CStr_to_str_ok(Unwrap(last.calls[1].out)))
            => last.ret = Err("Unhandled")
         /\ last.ret.ok =>
              /\ AllSucceeded
              /\ last.ret.val = Unwrap(last.calls[1].out)

\* C5 witness: a query whose native call reported an error
C5_Witness ==
    /\ last.op = "is_rasterization_enabled"
    /\ last.calls[1].result = "CompilationError"
    /\ last.ret = Err("CompilationError")

\* C7: is_rasterization_enabled returns the negation of the native layer's
\* effective rasterization-disabled flag; after a successful
\* set_compiler_options it returns the enable_rasterization of those options.
C7_RasterizationRoundTrip ==
    (last.op = "is_rasterization_enabled" /\ last.ret.ok)
    => /\ last.ret.val = ~native.is_rasterization_disabled
       /\ committed # None => last.ret.val = Unwrap(committed).enable_rasterization

\* C7 witness: the query answers FALSE after options with
\* enable_rasterization = FALSE were set
C7_Witness ==
    /\ last.op = "is_rasterization_enabled"
    /\ last.ret.ok
    /\ committed # None
    /\ ~Unwrap(committed).enable_rasterization
    /\ last.ret.val = FALSE

\* C9: the default CompilerOptions hold the documented values; their flat
\* record has rasterization-disabled FALSE, point-size-builtin TRUE and
\* version 10200, and a session configured with them caches two empty arrays.
C9_Defaults ==
    /\ CompilerOptions_default.platform = "macOS"
    /\ CompilerOptions_default.version = "V1_2"
    /\ CompilerOptions_default.vertex.invert_y = FALSE
    /\ CompilerOptions_default.vertex.transform_clip_space = FALSE
    /\ CompilerOptions_default.swizzle_buffer_index = 30
    /\ CompilerOptions_default.indirect_params_buffer_index = 29
    /\ CompilerOptions_default.output_buffer_index = 28
    /\ CompilerOptions_default.patch_output_buffer_index = 27
    /\ CompilerOptions_default.tessellation_factor_buffer_index = 26
    /\ CompilerOptions_default.buffer_size_buffer_index = 25
    /\ CompilerOptions_default.enable_point_size_builtin = TRUE
    /\ CompilerOptions_default.enable_rasterization = TRUE
    /\ CompilerOptions_default.capture_output_to_buffer = FALSE
    /\ CompilerOptions_default.swizzle_texture_samples = FALSE
    /\ CompilerOptions_default.tessellation_domain_origin_lower_left = FALSE
    /\ CompilerOptions_default.enable_argument_buffers = FALSE
    /\ CompilerOptions_default.pad_fragment_output_components = FALSE
    /\ DOMAIN CompilerOptions_default.resource_binding_overrides = {}
    /\ DOMAIN CompilerOptions_default.vertex_attribute_overrides = {}
    /\ committed = Some(CompilerOptions_default) =>
         /\ Unwrap(native.options).disable_rasterization = FALSE
         /\ Unwrap(native.options).enable_point_size_builtin = TRUE
         /\ Unwrap(native.options).version = 10200
         /\ vat_cache = <<>>
         /\ res_cache = <<>>

\* C9 witness: a successful set_compiler_options with the defaults
C9_Witness ==
    /\ committed = Some(CompilerOptions_default)
    /\ last.op = "set_compiler_options"
    /\ last.ret.ok
    /\ Unwrap(native.options).version = 10200

\* the flat record the last set_compiler_options submitted to the native layer
raw_submitted == last.calls[1].args.options

\* C6: each translated array has exactly one record per table entry, with
\* the key fields inlined and the value fields projected 1:1 (per_instance
\* iff the step is Instance), in strictly ascending key order: by location,
\* and by (stage, descriptor set, binding) lexicographically.
C6_TranslatedArrays ==
    committed # None =>
      LET vat_table == Unwrap(committed).vertex_attribute_overrides
          res_table == Unwrap(committed).resource_binding_overrides
      IN  /\ Len(vat_cache) = Cardinality(DOMAIN vat_table)
          /\ \A loc \in DOMAIN vat_table :
               \E i \in 1..Len(vat_cache) :
                 /\ vat_cache[i].location = loc
                 /\ vat_cache[i].msl_buffer = vat_table[loc].buffer_id
                 /\ vat_cache[i].msl_offset = vat_table[loc].offset
                 /\ vat_cache[i].msl_stride = vat_table[loc].stride
                 /\ vat_cache[i].per_instance = (vat_table[loc].step = "Instance")
                 /\ vat_cache[i].format = Format_as_raw(vat_table[loc].format)
                 /\ vat_cache[i].builtin = built_in_as_raw(vat_table[loc].built_in)
          /\ \A i \in 1..Len(vat_cache), j \in 1..Len(vat_cache) :
               i < j => vat_cache[i].location < vat_cache[j].location
          /\ Len(res_cache) = Cardinality(DOMAIN res_table)
          /\ \A loc \in DOMAIN res_table :
               \E i \in 1..Len(res_cache) :
                 /\ res_cache[i].stage = ExecutionModel_as_raw(loc.stage)
                 /\ res_cache[i].desc_set = loc.desc_set
                 /\ res_cache[i].binding = loc.binding
                 /\ res_cache[i].msl_buffer = res_table[loc].buffer_id
                 /\ res_cache[i].msl_texture = res_table[loc].texture_id
                 /\ res_cache[i].msl_sampler = res_table[loc].sampler_id
          /\ \A i \in 1..Len(res_cache), j \in 1..Len(res_cache) :
               i < j =>
                 \/ res_cache[i].stage < res_cache[j].stage
                 \/ /\ res_cache[i].stage = res_cache[j].stage
                    /\ res_cache[i].desc_set < res_cache[j].desc_set
                 \/ /\ res_cache[i].stage = res_cache[j].stage
                    /\ res_cache[i].desc_set = res_cache[j].desc_set
                    /\ res_cache[i].binding < res_cache[j].binding

\* C6 witness: two resource bindings whose stage order is the reverse of
\* their descriptor-set and binding order, next to a per-instance vertex
\* attribute
C6_Witness ==
    /\ committed # None
    /\ Len(res_cache) = 2
    /\ res_cache[1].stage = 0 /\ res_cache[1].desc_set = 1 /\ res_cache[1].binding = 1
    /\ res_cache[2].stage = 4 /\ res_cache[2].desc_set = 0 /\ res_cache[2].binding = 0
    /\ Len(vat_cache) = 1
    /\ vat_cache[1].location = 1
    /\ vat_cache[1].per_instance

\* C8: the flat options record has disable_rasterization equal to the
\* negation of enable_rasterization, and every other scalar (vertex flags,
\* platform, the six buffer indices, point-size builtin and the other
\* feature flags) copied to its flat field unchanged.
C8_FlatRecord ==
    (last.op = "set_compiler_options" /\ last.ret.ok) =>
      LET options == Unwrap(committed)
          raw == raw_submitted
      IN  /\ raw.disable_rasterization = ~options.enable_rasterization
          /\ raw.vertex_invert_y = options.vertex.invert_y
          /\ raw.vertex_transform_clip_space = options.vertex.transform_clip_space
          /\ raw.platform = 0 <=> options.platform = "iOS"
          /\ raw.platform = 1 <=> options.platform = "macOS"
          /\ raw.enable_point_size_builtin = options.enable_point_size_builtin
          /\ raw.swizzle_buffer_index = options.swizzle_buffer_index
          /\ raw.indirect_params_buffer_index = options.indirect_params_buffer_index
          /\ raw.shader_output_buffer_index = options.output_buffer_index
          /\ raw.shader_patch_output_buffer_index = options.patch_output_buffer_index
          /\ raw.shader_tess_factor_buffer_index
               = options.tessellation_factor_buffer_index
          /\ raw.buffer_size_buffer_index = options.buffer_size_buffer_index
          /\ raw.capture_output_to_buffer = options.capture_output_to_buffer
          /\ raw.swizzle_texture_samples = options.swizzle_texture_samples
          /\ raw.tess_domain_origin_lower_left
               = options.tessellation_domain_origin_lower_left
          /\ raw.argument_buffers = options.enable_argument_buffers
          /\ raw.pad_fragment_output_components
               = options.pad_fragment_output_components

\* C8 witness: options with rasterization disabled, a feature flag set and a
\* buffer index moved off its default
C8_Witness ==
    /\ last.op = "set_compiler_options"
    /\ last.ret.ok
    /\ ~Unwrap(committed).enable_rasterization
    /\ Unwrap(committed).enable_argument_buffers
    /\ Unwrap(committed).output_buffer_index = 0
    /\ raw_submitted.disable_rasterization
    /\ raw_submitted.shader_output_buffer_index = 0

\* C10: Version::as_raw is defined on every variant, yields
\* major*10000 + minor*100 + patch (1.2 -> 10200, 2.1 -> 20100), and maps
\* distinct variants to distinct integers.
C10_VersionEncoding ==
    /\ last.op = "set_compiler_options" =>
         \E version \in Version :
           LET n == Version_number(version)
           IN  raw_submitted.version = n.major * 10000 + n.minor * 100 + n.patch
    /\ (last.op = "set_compiler_options" /\ last.ret.ok) =>
         LET n == Version_number(Unwrap(committed).version)
         IN  raw_submitted.version = n.major * 10000 + n.minor * 100 + n.patch
    /\ (last.op = "set_compiler_options" /\ last.ret.ok) =>
         \A other \in Version \ {Unwrap(committed).version} :
           Version_as_raw(other) # raw_submitted.version

\* C10 witness: version 2.1 submitted as 20100
C10_Witness ==
    /\ last.op = "set_compiler_options"
    /\ last.ret.ok
    /\ Unwrap(committed).version = "V2_1"
    /\ raw_submitted.version = 20100

====
